---- MODULE Spec2Model ----
(***************************************************************************)
(* A model of html-template-engine (src/index.mjs).                        *)
(*                                                                         *)
(* src/index.mjs holds two generations of every function, one after the    *)
(* other.  The definitions below model the later generation (lines 242 to  *)
(* 490), the one the describe()-style tests and the README exercise; where *)
(* the earlier generation (lines 1 to 240) differs, a comment says so.     *)
(*                                                                         *)
(* Text is a sequence of one-character strings, so that the regular        *)
(* expressions of the source are matched character by character.  A view   *)
(* model is a function from keys (texts) to scalar values; its keys are    *)
(* ordinary identifiers (none is a member name of Object.prototype), and   *)
(* file contents hold no "$" (String.prototype.replace patterns).          *)
(***************************************************************************)
EXTENDS Integers, Sequences, FiniteSets, TLC

VARIABLES
    doc,         \* the parts the input text was assembled from (input bookkeeping)
    html,        \* the text argument of the operation under check
    viewModel,   \* the view model argument
    ret,         \* the results of the successive applications of a pure function
    fileReader,  \* the process-wide reader (src/index.mjs:247): path -> outcome
    stack,       \* the frames of the asynchronous call in progress, innermost last
    result,      \* how the outermost call settled: pending, fulfilled or rejected
    reads,       \* every invocation of fileReader so far, in order (the paths)
    log,         \* every logError call so far, in order
    stages,      \* the stages renderTemplate has applied so far, in order
    parked       \* the other calls in progress, each suspended at an await

vars == <<doc, html, viewModel, ret, fileReader, stack, result, reads, log, stages, parked>>

----------------------------------------------------------------------------
(* Characters and character classes of the regular expressions.            *)

WhiteSpace == {" ", "\t", "\n", "\r"}

WordChars ==
    {"a","b","c","d","e","f","g","h","i","j","k","l","m","n","o","p","q","r","s","t","u","v","w","x","y","z",
     "A","B","C","D","E","F","G","H","I","J","K","L","M","N","O","P","Q","R","S","T","U","V","W","X","Y","Z",
     "0","1","2","3","4","5","6","7","8","9","_"}

FileNameChars == WordChars \cup {"-", "."}

Quotes == {"\"", "'"}

CommentOpen == <<"<", "!", "-", "-">>

CommentClose == <<"-", "-", ">">>

\* The text p occurs in s at position i.
StartsWithAt(s, i, p) ==
    /\ i >= 1
    /\ i + Len(p) - 1 <= Len(s)
    /\ SubSeq(s, i, i + Len(p) - 1) = p

\* A greedy class repetition X*: the first position from i on whose character is
\* not in class (Len(s) + 1 when there is none).
RECURSIVE SkipWhile(_, _, _)
SkipWhile(s, i, class) ==
    IF i <= Len(s) /\ s[i] \in class THEN SkipWhile(s, i + 1, class) ELSE i

\* A greedy negated class repetition [^...]*: the first position from i on whose
\* character is in stop.
RECURSIVE SkipUntil(_, _, _)
SkipUntil(s, i, stop) ==
    IF i <= Len(s) /\ s[i] \notin stop THEN SkipUntil(s, i + 1, stop) ELSE i

\* An optional character X?: the position after it when it is there.
SkipOptional(s, i, class) ==
    IF i <= Len(s) /\ s[i] \in class THEN i + 1 ELSE i

\* String.prototype.trim on the span [from, to) of s.
RECURSIVE TrimEnd(_, _, _)
TrimEnd(s, from, to) ==
    IF to > from /\ s[to - 1] \in WhiteSpace THEN TrimEnd(s, from, to - 1) ELSE to

Trim(s) ==
    LET from == SkipWhile(s, 1, WhiteSpace)
    IN  SubSeq(s, from, TrimEnd(s, from, Len(s) + 1) - 1)

\* The leftmost and the rightmost of a non-empty set of positions.
Least(S) == CHOOSE x \in S : \A y \in S : x <= y

Greatest(S) == CHOOSE x \in S : \A y \in S : x >= y

\* The first position from i on at which p occurs in s, 0 when there is none.
IndexOf(s, p, i) ==
    LET hits == {j \in i..Len(s) : StartsWithAt(s, j, p)}
    IN  IF hits = {} THEN 0 ELSE Least(hits)

----------------------------------------------------------------------------
(* View model values: string | boolean | number, or undefined for a key    *)
(* the model does not hold.                                                *)

Str(s) == [type |-> "string", str |-> s, num |-> 0, bool |-> FALSE]

Num(n) == [type |-> "number", str |-> <<>>, num |-> n, bool |-> FALSE]

Bool(b) == [type |-> "boolean", str |-> <<>>, num |-> 0, bool |-> b]

Undefined == [type |-> "undefined", str |-> <<>>, num |-> 0, bool |-> FALSE]

\* viewModel[key]
Get(vm, key) == IF key \in DOMAIN vm THEN vm[key] ELSE Undefined

\* The truthiness the conditional operator applies to viewModel[key].
Truthy(v) ==
    CASE v.type = "string"  -> v.str # <<>>
      [] v.type = "number"  -> v.num # 0
      [] v.type = "boolean" -> v.bool
      [] OTHER              -> FALSE

Digit(d) == <<"0","1","2","3","4","5","6","7","8","9">>[d + 1]

RECURSIVE Digits(_)
Digits(n) == IF n < 10 THEN <<Digit(n)>> ELSE Digits(n \div 10) \o <<Digit(n % 10)>>

\* String(value)
String(v) ==
    CASE v.type = "string"  -> v.str
      [] v.type = "number"  -> IF v.num < 0 THEN <<"-">> \o Digits(-v.num) ELSE Digits(v.num)
      [] v.type = "boolean" -> IF v.bool THEN <<"t","r","u","e">> ELSE <<"f","a","l","s","e">>
      [] OTHER              -> <<"u","n","d","e","f","i","n","e","d">>

----------------------------------------------------------------------------
(* replacePlaceholders                                                     *)

\* /<!--\s*(\w+)\s*-->/ tried at position i: end is the position after the match,
\* 0 when there is no match at i.
PlaceholderAt(s, i) ==
    LET k0 == SkipWhile(s, i + 4, WhiteSpace)
        k1 == SkipWhile(s, k0, WordChars)
        c  == SkipWhile(s, k1, WhiteSpace)
    IN  IF StartsWithAt(s, i, CommentOpen) /\ k1 > k0 /\ StartsWithAt(s, c, CommentClose)
        THEN [end |-> c + 3, key |-> SubSeq(s, k0, k1 - 1)]
        ELSE [end |-> 0, key |-> <<>>]

\* A replacer that drops the placeholder whose key is absent or falsy.
PlaceholderReplacerDropsFalsy(match, key, vm) ==
    IF Truthy(Get(vm, key)) THEN String(Get(vm, key)) ELSE <<>>

\* replacer(match, key): the string form of a truthy value, else the match itself.
PlaceholderReplacer(match, key, vm) ==
    IF Truthy(Get(vm, key)) THEN String(Get(vm, key)) ELSE match

\* html.replace(/<!--\s*(\w+)\s*-->/g, replacer) from position i on: one scan from
\* left to right, each match replaced, the scan resumed after the match.
RECURSIVE ReplacePlaceholdersFrom(_, _, _)
ReplacePlaceholdersFrom(s, i, vm) ==
    LET hits == {j \in i..Len(s) : PlaceholderAt(s, j).end # 0}
    IN  IF hits = {} THEN SubSeq(s, i, Len(s))
        ELSE LET j == Least(hits)
                 m == PlaceholderAt(s, j)
             IN  SubSeq(s, i, j - 1)
                     \o PlaceholderReplacer(SubSeq(s, j, m.end - 1), m.key, vm)
                     \o ReplacePlaceholdersFrom(s, m.end, vm)

replacePlaceholders(s, vm) == ReplacePlaceholdersFrom(s, 1, vm)

----------------------------------------------------------------------------
(* renderIf                                                                *)

KwRenderIf == <<"r","e","n","d","e","r","I","f","(">>

KwEndIf == <<"e","n","d","I","f","(",")">>

\* /<!--\s*renderIf\(([^)]+)\);?\s*-->/ tried at position i.
RenderIfOpenAt(s, i) ==
    LET k  == SkipWhile(s, i + 4, WhiteSpace)
        k0 == k + Len(KwRenderIf)
        k1 == SkipUntil(s, k0, {")"})
        c  == SkipWhile(s, SkipOptional(s, k1 + 1, {";"}), WhiteSpace)
    IN  IF /\ StartsWithAt(s, i, CommentOpen)
           /\ StartsWithAt(s, k, KwRenderIf)
           /\ k1 > k0
           /\ StartsWithAt(s, k1, <<")">>)
           /\ StartsWithAt(s, c, CommentClose)
        THEN [end |-> c + 3, key |-> SubSeq(s, k0, k1 - 1)]
        ELSE [end |-> 0, key |-> <<>>]

\* /<!--\s*endIf\(\);?\s*-->/ tried at position i: the position after the match, or 0.
EndIfAt(s, i) ==
    LET k == SkipWhile(s, i + 4, WhiteSpace)
        c == SkipWhile(s, SkipOptional(s, k + Len(KwEndIf), {";"}), WhiteSpace)
    IN  IF /\ StartsWithAt(s, i, CommentOpen)
           /\ StartsWithAt(s, k, KwEndIf)
           /\ StartsWithAt(s, c, CommentClose)
        THEN c + 3
        ELSE 0

\* A greedy ([\s\S]*): the last position from i on at which the closing marker
\* matches, 0 when no closing marker follows.
FarthestEndIf(s, i) ==
    LET hits == {j \in i..Len(s) : EndIfAt(s, j) # 0}
    IN  IF hits = {} THEN 0 ELSE Greatest(hits)

\* ([\s\S]*?) followed by the closing marker: the first position from i on at which
\* the closing marker matches, 0 when no closing marker follows.
NearestEndIf(s, i) ==
    LET hits == {j \in i..Len(s) : EndIfAt(s, j) # 0}
    IN  IF hits = {} THEN 0 ELSE Least(hits)

\* The whole regular expression of renderIf tried at position i.
RenderIfBlockAt(s, i) ==
    LET open  == RenderIfOpenAt(s, i)
        close == IF open.end = 0 THEN 0 ELSE NearestEndIf(s, open.end)
    IN  IF close # 0
        THEN [end |-> EndIfAt(s, close), key |-> open.key,
              content |-> SubSeq(s, open.end, close - 1)]
        ELSE [end |-> 0, key |-> <<>>, content |-> <<>>]

\* replacer(_, key, content): the key is looked up as captured (it is not trimmed).
RenderIfReplacer(key, content, vm) ==
    IF Truthy(Get(vm, key)) THEN content ELSE <<>>

RECURSIVE RenderIfFrom(_, _, _)
RenderIfFrom(s, i, vm) ==
    LET hits == {j \in i..Len(s) : RenderIfBlockAt(s, j).end # 0}
    IN  IF hits = {} THEN SubSeq(s, i, Len(s))
        ELSE LET m == RenderIfBlockAt(s, Least(hits))
             IN  SubSeq(s, i, Least(hits) - 1)
                     \o RenderIfReplacer(m.key, m.content, vm)
                     \o RenderIfFrom(s, m.end, vm)

renderIf(s, vm) == RenderIfFrom(s, 1, vm)

----------------------------------------------------------------------------
(* minifyHtml                                                              *)

\* .replace(/\s+/gm, " "): every maximal run of white space becomes one space.
RECURSIVE CollapseWhiteSpaceFrom(_, _)
CollapseWhiteSpaceFrom(s, i) ==
    LET hits == {j \in i..Len(s) : s[j] \in WhiteSpace}
    IN  IF hits = {} THEN SubSeq(s, i, Len(s))
        ELSE SubSeq(s, i, Least(hits) - 1) \o <<" ">>
                 \o CollapseWhiteSpaceFrom(s, SkipWhile(s, Least(hits), WhiteSpace))

\* /<!--[\s\S]*?-->/ tried at position i: the position after the match, or 0.
CommentAt(s, i) ==
    LET close == IF StartsWithAt(s, i, CommentOpen) THEN IndexOf(s, CommentClose, i + 4) ELSE 0
    IN  IF close # 0 THEN close + 3 ELSE 0

\* .replace(/<!--[\s\S]*?-->/g, "")
RECURSIVE RemoveCommentsFrom(_, _)
RemoveCommentsFrom(s, i) ==
    LET hits == {j \in i..Len(s) : CommentAt(s, j) # 0}
    IN  IF hits = {} THEN SubSeq(s, i, Len(s))
        ELSE SubSeq(s, i, Least(hits) - 1) \o RemoveCommentsFrom(s, CommentAt(s, Least(hits)))

minifyHtml(s) == RemoveCommentsFrom(CollapseWhiteSpaceFrom(s, 1), 1)

----------------------------------------------------------------------------
(* The file reader, the logger and the frames of asynchronous calls.       *)

\* The base directory every call of the model is given.
BaseDir == <<".">>

\* join(baseDir, filename) of node:path for a one-segment file name.
join(baseDir, filename) ==
    IF baseDir = <<".">> THEN filename ELSE baseDir \o <<"/">> \o filename

\* What a reader does with a path: its promise fulfils with the content, or rejects
\* with an Error (a value with a message) or with a nullish value (undefined, null).
Fulfils(content) == [ok |-> TRUE, content |-> content, error |-> "none"]

Rejects(error) == [ok |-> FALSE, content |-> <<>>, error |-> error]

\* The reader the module starts with (lines 246 to 249): readFile of node, here
\* with two files on the disk, A and B, each holding the text "1".
DefaultReader ==
    LET file == [ok |-> TRUE,
                 parts |-> <<[kind |-> "text", key |-> <<>>, inner |-> <<>>, text |-> <<"1">>]>>,
                 content |-> <<"1">>,
                 error |-> "none"]
    IN  (<<"A">> :> file) @@ (<<"B">> :> file)

\* A read that goes to readFile whatever reader has been set.
ReadFile_Default(reader, path) ==
    IF path \notin DOMAIN DefaultReader THEN Rejects("Error")
    ELSE Fulfils(DefaultReader[path].content)

\* fileReader(filePath): a reader holds the parts of each file it can read; a path
\* it does not hold is a missing file (readFile rejects with an Error).
ReadFile(reader, path) ==
    IF path \notin DOMAIN reader THEN Rejects("Error")
    ELSE IF reader[path].ok THEN Fulfils(reader[path].content)
    ELSE Rejects(reader[path].error)

\* A promise: pending, or settled.
Pending == [state |-> "pending", value |-> <<>>]

Fulfilled(value) == [state |-> "fulfilled", value |-> value]

Rejected(error) == [state |-> "rejected", value |-> <<error>>]

\* A frame: one activation of includeFiles, includeFilesIf or renderTemplate with
\* its parameters and locals; pc names the await (or the loop head) it stands at,
\* and value is what its promise settled to once pc is "done".
Frame(fn, pc, text) ==
    [fn |-> fn, pc |-> pc, html |-> text,
     lastIndex |-> 1, replacements |-> <<>>,
     match |-> <<>>, key |-> <<>>, filename |-> <<>>, pending |-> Rejects("none"),
     lines |-> <<>>, i |-> 1, EOL |-> <<>>,
     value |-> Pending]

Top == stack[Len(stack)]

SetTop(frame) == [stack EXCEPT ![Len(stack)] = frame]

\* The frame below the top one, the caller awaiting it.
Caller == stack[Len(stack) - 1]

\* The stack after the settled top frame is dropped and its caller becomes frame.
ResumeCaller(frame) == [SubSeq(stack, 1, Len(stack) - 1) EXCEPT ![Len(stack) - 1] = frame]

\* The top frame is a callee of the frame below and has settled.
CalleeSettled == Len(stack) >= 2 /\ Top.pc = "done"

\* logError(message, source): the entry keeps the source and the file name.
LogEntry(source, filename) == [source |-> source, filename |-> filename]

\* The record of one invocation of fileReader: the path, and the depth of the call
\* that made it (1 is the outermost call).
ReadEntry(path) == [path |-> path, depth |-> Len(stack)]

----------------------------------------------------------------------------
(* includeFiles                                                            *)

KwInclude == <<"i","n","c","l","u","d","e","(">>

\* /<!--\s*include\(\s*["']?([\w\-.]+)["']?\s*\);?\s*-->/ tried at position i.
\* (The earlier generation, line 112, takes any run of non-")" characters as the
\* file name and knows no quotes.)
IncludeAt(s, i) ==
    LET k  == SkipWhile(s, i + 4, WhiteSpace)
        f0 == SkipOptional(s, SkipWhile(s, k + Len(KwInclude), WhiteSpace), Quotes)
        f1 == SkipWhile(s, f0, FileNameChars)
        p  == SkipWhile(s, SkipOptional(s, f1, Quotes), WhiteSpace)
        c  == SkipWhile(s, SkipOptional(s, p + 1, {";"}), WhiteSpace)
    IN  IF /\ StartsWithAt(s, i, CommentOpen)
           /\ StartsWithAt(s, k, KwInclude)
           /\ f1 > f0
           /\ StartsWithAt(s, p, <<")">>)
           /\ StartsWithAt(s, c, CommentClose)
        THEN [start |-> i, end |-> c + 3, file |-> SubSeq(s, f0, f1 - 1)]
        ELSE [start |-> 0, end |-> 0, file |-> <<>>]

\* includeRegEx.exec(html) with lastIndex i: the leftmost match from i on.
IncludeExec(s, i) ==
    LET hits == {j \in i..Len(s) : IncludeAt(s, j).end # 0}
    IN  IF hits = {} THEN IncludeAt(s, 0) ELSE IncludeAt(s, Least(hits))

\* An exec that passes over a directive whose text was already resolved.
RECURSIVE NextIncludeOnce(_)
NextIncludeOnce(frame) ==
    LET m == IncludeExec(frame.html, frame.lastIndex)
    IN  IF m.end # 0 /\ \E k \in DOMAIN frame.replacements :
                            frame.replacements[k].match = SubSeq(frame.html, m.start, m.end - 1)
        THEN NextIncludeOnce([frame EXCEPT !.lastIndex = m.end])
        ELSE m

\* An exec on a regular expression object that all calls share: the scan goes on
\* from the farthest position any call in progress has left in lastIndex.
NextInclude_SharedRegExp(frame) ==
    IncludeExec(frame.html,
                Greatest({frame.lastIndex}
                         \cup {parked[k].stack[Len(parked[k].stack)].lastIndex :
                                  k \in {j \in DOMAIN parked : parked[j].stack # <<>>}}))

\* match = includeRegEx.exec(html) of the loop head of includeFiles: every
\* occurrence of a directive is a match, a repeated one too.
NextInclude(frame) == IncludeExec(frame.html, frame.lastIndex)

\* GetSubstitution of String.prototype.replace/replaceAll for a string pattern:
\* $$ is "$", $& the match and $' the text after it; the fourth pattern, the text
\* before the match, is written with a back quote, a character no text here holds.
RECURSIVE GetSubstitution(_, _, _, _)
GetSubstitution(repl, j, matched, after) ==
    IF j > Len(repl) THEN <<>>
    ELSE IF repl[j] = "$" /\ j < Len(repl) /\ repl[j + 1] \in {"$", "&", "'"}
         THEN (CASE repl[j + 1] = "$" -> <<"$">>
                 [] repl[j + 1] = "&" -> matched
                 [] OTHER             -> after)
                  \o GetSubstitution(repl, j + 2, matched, after)
         ELSE <<repl[j]>> \o GetSubstitution(repl, j + 1, matched, after)

\* html.replaceAll(match, content) from position i on, match a non-empty string.
RECURSIVE ReplaceAllFrom(_, _, _, _)
ReplaceAllFrom(s, i, pat, repl) ==
    LET at == IndexOf(s, pat, i)
    IN  IF at = 0 THEN SubSeq(s, i, Len(s))
        ELSE SubSeq(s, i, at - 1)
                 \o GetSubstitution(repl, 1, pat, SubSeq(s, at + Len(pat), Len(s)))
                 \o ReplaceAllFrom(s, at + Len(pat), pat, repl)

replaceAll(s, pat, repl) == ReplaceAllFrom(s, 1, pat, repl)

\* for (const rpl of replacements) html = html.replaceAll(rpl.match, rpl.content)
RECURSIVE ApplyReplacements(_, _)
ApplyReplacements(s, replacements) ==
    IF replacements = <<>> THEN s
    ELSE ApplyReplacements(replaceAll(s, Head(replacements).match, Head(replacements).content),
                           Tail(replacements))

\* replacements.push({match: match[0], content})
PushReplacement(frame, content) ==
    [frame EXCEPT !.replacements = Append(@, [match |-> frame.match, content |-> content]),
                  !.pc = "exec"]

\* The catch block of includeFiles: an empty replacement and a log entry.
IncludeCatch(frame) == PushReplacement(frame, <<>>)

\* The frame of includeFiles when the promise of fileReader settles: on to the
\* recursive call, or the catch block.  The template literal of the catch block
\* reads error.message, which throws a TypeError out of includeFiles when the
\* rejection value is nullish.
IncludeRead(frame, outcome) ==
    IF outcome.ok THEN [frame EXCEPT !.pc = "awaitInclude"]
    ELSE IF outcome.error = "nullish"
         THEN [frame EXCEPT !.pc = "done", !.value = Rejected("TypeError")]
         ELSE IncludeCatch(frame)

\* The fetched content taken as it is: no recursive call, as in the earlier
\* generation (line 121).
NestedInclude_NoRescan(content) ==
    [Frame("includeFiles", "exec", content) EXCEPT !.pc = "done", !.value = Fulfilled(content)]

\* await includeFiles(fileContent, baseDir): the frame of the recursive call.
NestedInclude(content) == Frame("includeFiles", "exec", content)

\* The loop head of includeFiles: the next directive is matched and the reader is
\* invoked with its path; without a further match the replacements are applied
\* and the call returns.
IncludeFilesExec ==
    /\ stack # <<>>
    /\ Top.fn = "includeFiles" /\ Top.pc = "exec"
    /\ LET m        == NextInclude(Top)
           filename == Trim(m.file)
           filePath == join(BaseDir, filename)
       IN  IF m.end = 0
           THEN /\ stack' = SetTop([Top EXCEPT
                                      !.pc = "done",
                                      !.value = Fulfilled(ApplyReplacements(Top.html, Top.replacements))])
                /\ reads' = reads
           ELSE /\ stack' = SetTop([Top EXCEPT
                                      !.pc = "awaitRead",
                                      !.lastIndex = m.end,
                                      !.match = SubSeq(Top.html, m.start, m.end - 1),
                                      !.filename = filename,
                                      !.pending = ReadFile(fileReader, filePath)])
                /\ reads' = Append(reads, ReadEntry(filePath))
    /\ UNCHANGED <<doc, html, viewModel, ret, parked, fileReader, result, log, stages>>

\* The promise of fileReader settles and includeFiles goes on: fulfilled, it calls
\* includeFiles on the content; rejected, it runs its catch block.
IncludeFilesRead ==
    /\ stack # <<>>
    /\ Top.fn = "includeFiles" /\ Top.pc = "awaitRead"
    /\ LET frame == IncludeRead(Top, Top.pending)
       IN  /\ stack' = IF frame.pc = "awaitInclude"
                       THEN Append(SetTop(frame), NestedInclude(Top.pending.content))
                       ELSE SetTop(frame)
           /\ log' = IF frame.pc = "exec"
                     THEN Append(log, LogEntry("include", Top.filename))
                     ELSE log
    /\ UNCHANGED <<doc, html, viewModel, ret, parked, fileReader, result, reads, stages>>

\* The recursive includeFiles call settles: its text becomes the replacement; its
\* rejection (a TypeError, which has a message) is caught.
IncludeFilesNested ==
    /\ CalleeSettled
    /\ Caller.fn = "includeFiles" /\ Caller.pc = "awaitInclude"
    /\ IF Top.value.state = "fulfilled"
       THEN /\ stack' = ResumeCaller(PushReplacement(Caller, Top.value.value))
            /\ log' = log
       ELSE /\ stack' = ResumeCaller(IncludeCatch(Caller))
            /\ log' = Append(log, LogEntry("include", Caller.filename))
    /\ UNCHANGED <<doc, html, viewModel, ret, parked, fileReader, result, reads, stages>>

----------------------------------------------------------------------------
(* includeFilesIf                                                          *)

KwIncludeIf == <<"i","n","c","l","u","d","e","I","f","(">>

\* /<!--\s*includeIf\(/ tried at position i.
IncludeIfHeadAt(s, i) ==
    /\ StartsWithAt(s, i, CommentOpen)
    /\ StartsWithAt(s, SkipWhile(s, i + 4, WhiteSpace), KwIncludeIf)

\* html.match(/<!--\s*includeIf\(/) finds something.
HasIncludeIf(s) == \E i \in 1..Len(s) : IncludeIfHeadAt(s, i)

\* /<!--\s*includeIf\(([^,]+),\s*["']?([\w\-.]+)["']?\s*\);?\s*-->/ tried at
\* position i of a line.
IncludeIfAt(s, i) ==
    LET k  == SkipWhile(s, i + 4, WhiteSpace)
        k0 == k + Len(KwIncludeIf)
        k1 == SkipUntil(s, k0, {","})
        f0 == SkipOptional(s, SkipWhile(s, k1 + 1, WhiteSpace), Quotes)
        f1 == SkipWhile(s, f0, FileNameChars)
        p  == SkipWhile(s, SkipOptional(s, f1, Quotes), WhiteSpace)
        c  == SkipWhile(s, SkipOptional(s, p + 1, {";"}), WhiteSpace)
    IN  IF /\ StartsWithAt(s, i, CommentOpen)
           /\ StartsWithAt(s, k, KwIncludeIf)
           /\ k1 > k0
           /\ StartsWithAt(s, k1, <<",">>)
           /\ f1 > f0
           /\ StartsWithAt(s, p, <<")">>)
           /\ StartsWithAt(s, c, CommentClose)
        THEN [start |-> i, end |-> c + 3, key |-> SubSeq(s, k0, k1 - 1), file |-> SubSeq(s, f0, f1 - 1)]
        ELSE [start |-> 0, end |-> 0, key |-> <<>>, file |-> <<>>]

\* An exec that gives the last match of the line instead of the first.
IncludeIfExecFrom_Last(s, i) ==
    LET hits == {j \in i..Len(s) : IncludeIfAt(s, j).end # 0}
    IN  IF hits = {} THEN IncludeIfAt(s, 0) ELSE IncludeIfAt(s, Greatest(hits))

\* includeIfRegEx.exec(line) of a regular expression without the g flag: the
\* leftmost match of the line.
IncludeIfExecFrom(s, i) ==
    LET hits == {j \in i..Len(s) : IncludeIfAt(s, j).end # 0}
    IN  IF hits = {} THEN IncludeIfAt(s, 0) ELSE IncludeIfAt(s, Least(hits))

IncludeIfExec(line) == IncludeIfExecFrom(line, 1)

\* html.split(/\r?\n/): the line up to the first separator, then the lines of the rest.
RECURSIVE SplitFrom(_)
SplitFrom(s) ==
    LET breaks == {j \in 1..Len(s) : s[j] = "\n"}
    IN  IF breaks = {} THEN <<s>>
        ELSE LET n   == Least(breaks)
                 end == IF n > 1 /\ s[n - 1] = "\r" THEN n - 2 ELSE n - 1
             IN  <<SubSeq(s, 1, end)>> \o SplitFrom(SubSeq(s, n + 1, Len(s)))

SplitLines(s) == SplitFrom(s)

\* html.includes("\r\n") ? "\r\n" : "\n"
EndOfLine(s) == IF IndexOf(s, <<"\r", "\n">>, 1) # 0 THEN <<"\r", "\n">> ELSE <<"\n">>

\* htmlLines.join(EOL)
RECURSIVE JoinLines(_, _)
JoinLines(lines, eol) ==
    IF Len(lines) <= 1 THEN (IF lines = <<>> THEN <<>> ELSE lines[1])
    ELSE lines[1] \o eol \o JoinLines(Tail(lines), eol)

\* line.replace(match, content) with a string pattern: the first occurrence.
ReplaceFirst(s, pat, repl) ==
    LET at == IndexOf(s, pat, 1)
    IN  IF at = 0 THEN s
        ELSE SubSeq(s, 1, at - 1)
                 \o GetSubstitution(repl, 1, pat, SubSeq(s, at + Len(pat), Len(s)))
                 \o SubSeq(s, at + Len(pat), Len(s))

\* A replacement of the directive after which the same line is scanned again.
SetLine_Rescan(frame, content) ==
    [frame EXCEPT !.lines[frame.i] = ReplaceFirst(frame.lines[frame.i], frame.match, content),
                  !.pc = "line"]

\* htmlLines[i] = line.replace(match[0], content), and on to the next line.
SetLine(frame, content) ==
    [frame EXCEPT !.lines[frame.i] = ReplaceFirst(frame.lines[frame.i], frame.match, content),
                  !.i = @ + 1,
                  !.pc = "line"]

\* The catch block of includeFilesIf: the directive is removed from its line.
IncludeIfCatch(frame) == SetLine(frame, <<>>)

\* The first statements of includeFilesIf: a text without "<!-- includeIf(" is
\* returned as it is, any other is split into lines.
IncludeFilesIfStart ==
    /\ stack # <<>>
    /\ Top.fn = "includeFilesIf" /\ Top.pc = "start"
    /\ stack' = SetTop(IF HasIncludeIf(Top.html)
                       THEN [Top EXCEPT !.pc = "line",
                                        !.EOL = EndOfLine(Top.html),
                                        !.lines = SplitLines(Top.html),
                                        !.i = 1]
                       ELSE [Top EXCEPT !.pc = "done", !.value = Fulfilled(Top.html)])
    /\ UNCHANGED <<doc, html, viewModel, ret, parked, fileReader, result, reads, log, stages>>

\* A turn of the loop that reads the file of every directive, whatever the value
\* of its key.
IncludeFilesIfLine_AnyKey ==
    /\ stack # <<>>
    /\ Top.fn = "includeFilesIf" /\ Top.pc = "line"
    /\ LET m        == IncludeIfExec(Top.lines[Top.i])
           key      == Trim(m.key)
           filename == Trim(m.file)
           filePath == join(BaseDir, filename)
       IN  IF Top.i > Len(Top.lines)
           THEN /\ stack' = SetTop([Top EXCEPT !.pc = "done",
                                               !.value = Fulfilled(JoinLines(Top.lines, Top.EOL))])
                /\ reads' = reads
           ELSE IF m.end # 0
           THEN /\ stack' = SetTop([Top EXCEPT
                                      !.pc = "awaitRead",
                                      !.match = SubSeq(Top.lines[Top.i], m.start, m.end - 1),
                                      !.key = key,
                                      !.filename = filename,
                                      !.pending = ReadFile(fileReader, filePath)])
                /\ reads' = Append(reads, ReadEntry(filePath))
           ELSE /\ stack' = SetTop([Top EXCEPT !.i = @ + 1])
                /\ reads' = reads
    /\ UNCHANGED <<doc, html, viewModel, ret, parked, fileReader, result, log, stages>>

\* One turn of the loop over the lines, up to its await: a line without directive,
\* or with a directive whose key is falsy, is left as it is; for a truthy key the
\* reader is invoked.  After the last line the lines are joined and returned.
\* (The earlier generation, lines 162 to 172, scans the whole text and removes the
\* directive of a falsy key.)
IncludeFilesIfLine ==
    /\ stack # <<>>
    /\ Top.fn = "includeFilesIf" /\ Top.pc = "line"
    /\ LET m        == IncludeIfExec(Top.lines[Top.i])
           key      == Trim(m.key)
           filename == Trim(m.file)
           filePath == join(BaseDir, filename)
       IN  IF Top.i > Len(Top.lines)
           THEN /\ stack' = SetTop([Top EXCEPT !.pc = "done",
                                               !.value = Fulfilled(JoinLines(Top.lines, Top.EOL))])
                /\ reads' = reads
           ELSE IF m.end # 0 /\ Truthy(Get(viewModel, key))
           THEN /\ stack' = SetTop([Top EXCEPT
                                      !.pc = "awaitRead",
                                      !.match = SubSeq(Top.lines[Top.i], m.start, m.end - 1),
                                      !.key = key,
                                      !.filename = filename,
                                      !.pending = ReadFile(fileReader, filePath)])
                /\ reads' = Append(reads, ReadEntry(filePath))
           ELSE /\ stack' = SetTop([Top EXCEPT !.i = @ + 1])
                /\ reads' = reads
    /\ UNCHANGED <<doc, html, viewModel, ret, parked, fileReader, result, log, stages>>

\* A continuation that hands the content of the file to includeFiles as it was
\* read, its blocks and placeholders unresolved.
IncludeFilesIfRead_RawContent ==
    /\ stack # <<>>
    /\ Top.fn = "includeFilesIf" /\ Top.pc = "awaitRead"
    /\ IF Top.pending.ok
       THEN /\ stack' = Append(SetTop([Top EXCEPT !.pc = "awaitIncludeFiles"]),
                               Frame("includeFiles", "exec", Top.pending.content))
            /\ log' = log
       ELSE IF Top.pending.error = "nullish"
       THEN /\ stack' = SetTop([Top EXCEPT !.pc = "done", !.value = Rejected("TypeError")])
            /\ log' = log
       ELSE /\ stack' = SetTop(IncludeIfCatch(Top))
            /\ log' = Append(log, LogEntry("includeIf", Top.filename))
    /\ UNCHANGED <<doc, html, viewModel, ret, parked, fileReader, result, reads, stages>>

\* The promise of fileReader settles: fulfilled, the content goes through renderIf
\* and replacePlaceholders and includeFiles is called on it; rejected, the catch
\* block runs (its error.message throws for a nullish rejection value).
IncludeFilesIfRead ==
    /\ stack # <<>>
    /\ Top.fn = "includeFilesIf" /\ Top.pc = "awaitRead"
    /\ IF Top.pending.ok
       THEN /\ stack' = Append(SetTop([Top EXCEPT !.pc = "awaitIncludeFiles"]),
                               Frame("includeFiles", "exec",
                                     replacePlaceholders(renderIf(Top.pending.content, viewModel),
                                                         viewModel)))
            /\ log' = log
       ELSE IF Top.pending.error = "nullish"
       THEN /\ stack' = SetTop([Top EXCEPT !.pc = "done", !.value = Rejected("TypeError")])
            /\ log' = log
       ELSE /\ stack' = SetTop(IncludeIfCatch(Top))
            /\ log' = Append(log, LogEntry("includeIf", Top.filename))
    /\ UNCHANGED <<doc, html, viewModel, ret, parked, fileReader, result, reads, stages>>

\* await includeFiles(fileContent2, baseDir) settles: includeFilesIf is called on
\* its text; its rejection is caught.
IncludeFilesIfAfterIncludeFiles ==
    /\ CalleeSettled
    /\ Caller.fn = "includeFilesIf" /\ Caller.pc = "awaitIncludeFiles"
    /\ IF Top.value.state = "fulfilled"
       THEN /\ stack' = Append(ResumeCaller([Caller EXCEPT !.pc = "awaitIncludeFilesIf"]),
                               Frame("includeFilesIf", "start", Top.value.value))
            /\ log' = log
       ELSE /\ stack' = ResumeCaller(IncludeIfCatch(Caller))
            /\ log' = Append(log, LogEntry("includeIf", Caller.filename))
    /\ UNCHANGED <<doc, html, viewModel, ret, parked, fileReader, result, reads, stages>>

\* await includeFilesIf(fileContent3, baseDir, viewModel) settles: its text takes
\* the place of the directive in the line; its rejection is caught.
IncludeFilesIfNested ==
    /\ CalleeSettled
    /\ Caller.fn = "includeFilesIf" /\ Caller.pc = "awaitIncludeFilesIf"
    /\ IF Top.value.state = "fulfilled"
       THEN /\ stack' = ResumeCaller(SetLine(Caller, Top.value.value))
            /\ log' = log
       ELSE /\ stack' = ResumeCaller(IncludeIfCatch(Caller))
            /\ log' = Append(log, LogEntry("includeIf", Caller.filename))
    /\ UNCHANGED <<doc, html, viewModel, ret, parked, fileReader, result, reads, stages>>

----------------------------------------------------------------------------
(* renderTemplate                                                          *)

\* A renderTemplate that includes the files before it resolves the blocks.
RenderTemplateStages_IncludesFirst ==
    <<"includeFiles", "includeFilesIf", "renderIf", "replacePlaceholders">>

\* The statements of renderTemplate in their order (lines 293 to 298); after the
\* last one the text is returned as it is.  (The earlier generation, lines 52 to
\* 61, calls includeFilesIf before includeFiles and returns minifyHtml(html).)
RenderTemplateStages ==
    <<"renderIf", "replacePlaceholders", "includeFiles", "includeFilesIf",
      "renderIf", "replacePlaceholders">>

\* One statement of renderTemplate: a synchronous stage is applied to the text, an
\* asynchronous one is called and awaited; after the last statement, return html.
RenderTemplateStep ==
    /\ stack # <<>>
    /\ Top.fn = "renderTemplate" /\ Top.pc = "stage"
    /\ IF Top.i > Len(RenderTemplateStages)
       THEN /\ stack' = SetTop([Top EXCEPT !.pc = "done", !.value = Fulfilled(Top.html)])
            /\ stages' = stages
       ELSE /\ stages' = Append(stages, RenderTemplateStages[Top.i])
            /\ stack' =
                 CASE RenderTemplateStages[Top.i] = "renderIf" ->
                        SetTop([Top EXCEPT !.html = renderIf(Top.html, viewModel), !.i = @ + 1])
                   [] RenderTemplateStages[Top.i] = "replacePlaceholders" ->
                        SetTop([Top EXCEPT !.html = replacePlaceholders(Top.html, viewModel),
                                           !.i = @ + 1])
                   [] RenderTemplateStages[Top.i] = "includeFiles" ->
                        Append(SetTop([Top EXCEPT !.pc = "await"]),
                               Frame("includeFiles", "exec", Top.html))
                   [] RenderTemplateStages[Top.i] = "includeFilesIf" ->
                        Append(SetTop([Top EXCEPT !.pc = "await"]),
                               Frame("includeFilesIf", "start", Top.html))
    /\ UNCHANGED <<doc, html, viewModel, ret, parked, fileReader, result, reads, log>>

\* An awaited stage settles: its text becomes html; its rejection, which
\* renderTemplate does not catch, rejects renderTemplate.
RenderTemplateResume ==
    /\ CalleeSettled
    /\ Caller.fn = "renderTemplate" /\ Caller.pc = "await"
    /\ stack' = ResumeCaller(IF Top.value.state = "fulfilled"
                             THEN [Caller EXCEPT !.html = Top.value.value,
                                                 !.i = @ + 1,
                                                 !.pc = "stage"]
                             ELSE [Caller EXCEPT !.pc = "done", !.value = Top.value])
    /\ UNCHANGED <<doc, html, viewModel, ret, parked, fileReader, result, reads, log, stages>>

\* The code that calls setFileReader can run: no call is in progress, or the one
\* in progress is suspended at an await.
Suspended == IF stack = <<>> THEN TRUE ELSE Top.pc \in {"awaitRead", "done"}

\* setFileReader(reader): the one reader of the module is replaced.
SetFileReader(reader) ==
    /\ Suspended
    /\ reader # fileReader
    /\ fileReader' = reader
    /\ UNCHANGED <<doc, html, viewModel, ret, parked, stack, result, reads, log, stages>>

\* A renderTemplate call as the event loop holds it while another one runs: its
\* arguments, its frames, and what it has settled to.
Call(parts, text, vm, frames, settled, applied) ==
    [doc |-> parts, html |-> text, viewModel |-> vm,
     stack |-> frames, result |-> settled, stages |-> applied]

\* The call that is running.
Running == Call(doc, html, viewModel, stack, result, stages)

\* The event loop turns to another call: the running call is suspended at an await
\* (or has returned), and a call that has not returned runs on from where it stood.
\* The reader, its invocations and the log are shared by all calls.
Switch(k) ==
    /\ Suspended
    /\ k \in DOMAIN parked
    /\ parked[k].stack # <<>>
    /\ doc' = parked[k].doc
    /\ html' = parked[k].html
    /\ viewModel' = parked[k].viewModel
    /\ stack' = parked[k].stack
    /\ result' = parked[k].result
    /\ stages' = parked[k].stages
    /\ parked' = [parked EXCEPT ![k] = Running]
    /\ UNCHANGED <<ret, fileReader, reads, log>>

\* The outermost call settles: its caller receives the text or the rejection.
CallerReceives ==
    /\ Len(stack) = 1
    /\ Top.pc = "done"
    /\ result' = Top.value
    /\ stack' = <<>>
    /\ UNCHANGED <<doc, html, viewModel, ret, parked, fileReader, reads, log, stages>>

----------------------------------------------------------------------------
(* Inputs: a text is assembled from parts, so that the check knows where   *)
(* its directives are without asking the functions under check.            *)

\* All sequences over S of length at most n.
BoundedSeq(S, n) == UNION {[1..k -> S] : k \in 0..n}

\* A part of an input text: literal text, or a directive with its operands.
Part(kind, key, inner, text) == [kind |-> kind, key |-> key, inner |-> inner, text |-> text]

Literal(text) == Part("text", <<>>, <<>>, text)

\* The text a sequence of parts stands for.
RECURSIVE Flatten(_)
Flatten(parts) ==
    IF parts = <<>> THEN <<>> ELSE Head(parts).text \o Flatten(Tail(parts))

\* The state of the asynchronous side while a pure function is under check.
NoFiles == <<>>

AsyncIdle ==
    /\ fileReader = NoFiles
    /\ stack = <<>>
    /\ result = Pending
    /\ reads = <<>>
    /\ log = <<>>
    /\ stages = <<>>
    /\ parked = <<>>

asyncVars == <<fileReader, stack, result, reads, log, stages, parked>>

\* How often a pure function is applied to its own result.
MaxCalls == 2

\* The argument of the next application: the input, then the previous result.
NextArg == IF ret = <<>> THEN html ELSE ret[Len(ret)]

----------------------------------------------------------------------------
(* replacePlaceholders under check.                                        *)

MaxPlaceholderParts == 3

Placeholder(key, text) == Part("placeholder", key, <<>>, text)

PlaceholderParts ==
    { Literal(<<"x">>),
      Literal(<<" ">>),
      Literal(CommentOpen),
      Literal(CommentOpen \o <<"a", " ", "b">> \o CommentClose),
      Placeholder(<<"a">>, CommentOpen \o <<" ", "a", " ">> \o CommentClose),
      Placeholder(<<"b">>, CommentOpen \o <<"b">> \o CommentClose),
      Placeholder(<<"c">>, CommentOpen \o <<"\n", "c", "\t">> \o CommentClose),
      Placeholder(<<"d">>, CommentOpen \o <<" ", "d">> \o CommentClose) }

PlaceholderModels ==
    { <<>>,
      (<<"a">> :> Str(<<"V">>)) @@ (<<"b">> :> Num(0)) @@ (<<"c">> :> Bool(TRUE)),
      (<<"a">> :> Str(<<>>)) @@ (<<"b">> :> Num(42)) @@ (<<"c">> :> Bool(FALSE)),
      (<<"a">> :> Str(CommentOpen \o <<"b">> \o CommentClose)) @@ (<<"b">> :> Str(<<"W">>)) }

InitPlaceholders ==
    /\ doc \in BoundedSeq(PlaceholderParts, MaxPlaceholderParts)
    /\ html = Flatten(doc)
    /\ viewModel \in PlaceholderModels
    /\ ret = <<>>
    /\ AsyncIdle

CallReplacePlaceholders ==
    /\ Len(ret) < MaxCalls
    /\ ret' = Append(ret, replacePlaceholders(NextArg, viewModel))
    /\ UNCHANGED <<doc, html, viewModel, asyncVars>>

SpecPlaceholders == InitPlaceholders /\ [][CallReplacePlaceholders]_vars

\* What the parts promise: a placeholder whose key is truthy gives the string form
\* of its value, every other part stays as it is.
RECURSIVE ExpectedPlaceholders(_, _)
ExpectedPlaceholders(parts, vm) ==
    IF parts = <<>> THEN <<>>
    ELSE LET p == Head(parts)
         IN  (IF p.kind = "placeholder" /\ Truthy(Get(vm, p.key))
              THEN String(Get(vm, p.key))
              ELSE p.text) \o ExpectedPlaceholders(Tail(parts), vm)

\* C2: replacePlaceholders replaces every placeholder whose key is truthy by the
\* string form of the value, in one pass, and leaves every placeholder whose key is
\* absent or falsy, and all other text, unchanged.
C2_PlaceholdersResolved ==
    ret # <<>> => ret[1] = ExpectedPlaceholders(doc, viewModel)

\* C2's case: a text with a truthy and a falsy placeholder has been resolved.
C2_Witness ==
    /\ Len(ret) = 1
    /\ ret[1] # html
    /\ \E i, j \in DOMAIN doc :
          /\ doc[i].kind = "placeholder" /\ Truthy(Get(viewModel, doc[i].key))
          /\ doc[j].kind = "placeholder" /\ ~Truthy(Get(viewModel, doc[j].key))

\* C3: replacePlaceholders is idempotent: a second application with the same view
\* model returns the result of the first.
C3_PlaceholdersIdempotent ==
    Len(ret) >= 2 => ret[2] = ret[1]

----------------------------------------------------------------------------
(* renderIf under check.                                                   *)

MaxBlocks == 3

Block(key, inner, text) == Part("block", key, inner, text)

RenderIfOpen == CommentOpen \o KwRenderIf

EndIf == CommentOpen \o KwEndIf \o CommentClose

RenderIfParts ==
    { Literal(<<"x">>),
      Literal(<<"\n">>),
      Literal(EndIf),
      Literal(CommentOpen \o <<"a">> \o CommentClose),
      Block(<<"a">>, <<"H">>, RenderIfOpen \o <<"a", ")">> \o CommentClose \o <<"H">> \o EndIf),
      Block(<<"b">>, <<"W">>,
            CommentOpen \o <<" ">> \o KwRenderIf \o <<"b", ")", ";", " ">> \o CommentClose \o <<"W">>
                \o CommentOpen \o <<" ">> \o KwEndIf \o <<";", " ">> \o CommentClose),
      Block(<<"c">>, <<"\n">> \o CommentOpen \o <<"a">> \o CommentClose,
            RenderIfOpen \o <<"c", ")", ";">> \o CommentClose
                \o <<"\n">> \o CommentOpen \o <<"a">> \o CommentClose \o EndIf),
      Block(<<"b">>, <<>>, RenderIfOpen \o <<"b", ")">> \o CommentClose \o EndIf) }

RenderIfModels ==
    { <<>>,
      (<<"a">> :> Bool(TRUE)) @@ (<<"b">> :> Bool(FALSE)) @@ (<<"c">> :> Str(<<"y">>)),
      (<<"a">> :> Num(0)) @@ (<<"b">> :> Num(1)) @@ (<<"c">> :> Str(<<>>)),
      (<<"a">> :> Bool(TRUE)) @@ (<<"b">> :> Bool(TRUE)) }

InitRenderIf ==
    /\ doc \in BoundedSeq(RenderIfParts, MaxBlocks)
    /\ html = Flatten(doc)
    /\ viewModel \in RenderIfModels
    /\ ret = <<>>
    /\ AsyncIdle

CallRenderIf ==
    /\ Len(ret) < MaxCalls
    /\ ret' = Append(ret, renderIf(NextArg, viewModel))
    /\ UNCHANGED <<doc, html, viewModel, asyncVars>>

SpecRenderIf == InitRenderIf /\ [][CallRenderIf]_vars

\* What the parts promise: a block gives its inner content when its key is truthy
\* and nothing otherwise, every other part stays as it is.
RECURSIVE ExpectedRenderIf(_, _)
ExpectedRenderIf(parts, vm) ==
    IF parts = <<>> THEN <<>>
    ELSE LET p == Head(parts)
         IN  (IF p.kind = "block"
              THEN (IF Truthy(Get(vm, p.key)) THEN p.inner ELSE <<>>)
              ELSE p.text) \o ExpectedRenderIf(Tail(parts), vm)

\* C4: renderIf replaces every block (an opening marker up to the nearest following
\* closing marker) by its inner content when its key is truthy and by nothing
\* otherwise, each block by its own key, and leaves the text outside blocks unchanged.
C4_BlocksResolved ==
    ret # <<>> => ret[1] = ExpectedRenderIf(doc, viewModel)

\* C4's case: two adjacent blocks, one kept and one dropped, have been resolved.
C4_Witness ==
    /\ Len(ret) = 1
    /\ \E i \in DOMAIN doc :
          /\ i + 1 \in DOMAIN doc
          /\ doc[i].kind = "block" /\ doc[i + 1].kind = "block"
          /\ Truthy(Get(viewModel, doc[i].key)) # Truthy(Get(viewModel, doc[i + 1].key))

----------------------------------------------------------------------------
(* minifyHtml under check.                                                 *)

MaxFragments == 4

MinifyParts ==
    { Literal(<<"a">>),
      Literal(<<" ">>),
      Literal(<<"\n", " ">>),
      Literal(CommentOpen \o <<"c">> \o CommentClose),
      Literal(CommentOpen),
      Literal(CommentClose),
      Literal(<<"<", "!", "-">>),
      Literal(<<"-">>) }

InitMinify ==
    /\ doc \in BoundedSeq(MinifyParts, MaxFragments)
    /\ html = Flatten(doc)
    /\ viewModel = <<>>
    /\ ret = <<>>
    /\ AsyncIdle

CallMinifyHtml ==
    /\ Len(ret) < MaxCalls
    /\ ret' = Append(ret, minifyHtml(NextArg))
    /\ UNCHANGED <<doc, html, viewModel, asyncVars>>

SpecMinify == InitMinify /\ [][CallMinifyHtml]_vars

\* C5: minifyHtml is idempotent: minifying a minified text changes nothing.
C5_MinifyIdempotent ==
    Len(ret) >= 2 => ret[2] = ret[1]

StartsWithWhiteSpace(s) == s # <<>> /\ s[1] \in WhiteSpace

EndsWithWhiteSpace(s) == s # <<>> /\ s[Len(s)] \in WhiteSpace

\* C6: minifyHtml trims: the result of an input that begins or ends with white space
\* neither begins nor ends with white space.
C6_MinifyTrims ==
    (ret # <<>> /\ (StartsWithWhiteSpace(html) \/ EndsWithWhiteSpace(html)))
        => (~StartsWithWhiteSpace(ret[1]) /\ ~EndsWithWhiteSpace(ret[1]))

----------------------------------------------------------------------------
(* includeFiles under check.                                               *)

MaxIncludeParts == 3

Include(file, text) == Part("include", file, <<>>, text)

IncludeOf(file) == Include(file, CommentOpen \o KwInclude \o file \o <<")">> \o CommentClose)

\* The same file, written with white space, quotes and a semicolon.
QuotedIncludeOf(file) ==
    Include(file, CommentOpen \o <<" ">> \o KwInclude \o <<" ", "'">> \o file
                      \o <<"'", " ", ")", ";", " ">> \o CommentClose)

IncludeParts ==
    { Literal(<<"x">>),
      IncludeOf(<<"A">>),
      QuotedIncludeOf(<<"A">>),
      IncludeOf(<<"B">>),
      IncludeOf(<<"M">>) }

\* A file a reader holds: its parts and the text they stand for, or a failure.
File(parts) == [ok |-> TRUE, parts |-> parts, content |-> Flatten(parts), error |-> "none"]

Failing(error) == [ok |-> FALSE, parts |-> <<>>, content |-> <<>>, error |-> error]

\* The readers of the check.  No reader holds M (a missing file), no file
\* includes itself or a file that includes it.
IncludeReaders ==
    { \* A includes B, B includes C
      (<<"A">> :> File(<<Literal(<<"a">>), IncludeOf(<<"B">>), Literal(<<"d">>)>>))
        @@ (<<"B">> :> File(<<Literal(<<"b">>), IncludeOf(<<"C">>)>>))
        @@ (<<"C">> :> File(<<Literal(<<"c">>)>>)),
      \* plain files; A holds two text-identical directives
      (<<"A">> :> File(<<IncludeOf(<<"C">>), Literal(<<"a">>), IncludeOf(<<"C">>)>>))
        @@ (<<"B">> :> File(<<Literal(<<"b">>)>>))
        @@ (<<"C">> :> File(<<Literal(<<"c">>)>>)),
      \* B cannot be read
      (<<"A">> :> File(<<Literal(<<"a">>), IncludeOf(<<"B">>)>>))
        @@ (<<"B">> :> Failing("Error")),
      \* the read of A rejects with undefined
      (<<"A">> :> Failing("nullish"))
        @@ (<<"B">> :> File(<<Literal(<<"b">>)>>)),
      \* a read inside A rejects with undefined
      (<<"A">> :> File(<<Literal(<<"a">>), IncludeOf(<<"C">>)>>))
        @@ (<<"B">> :> File(<<Literal(<<"b">>)>>))
        @@ (<<"C">> :> Failing("nullish")) }

InitInclude ==
    /\ doc \in BoundedSeq(IncludeParts, MaxIncludeParts)
    /\ html = Flatten(doc)
    /\ viewModel = <<>>
    /\ ret = <<>>
    /\ fileReader \in IncludeReaders
    /\ stack = <<Frame("includeFiles", "exec", html)>>
    /\ result = Pending
    /\ reads = <<>>
    /\ log = <<>>
    /\ stages = <<>>
    /\ parked = <<>>

NextIncludeFiles ==
    \/ IncludeFilesExec
    \/ IncludeFilesRead
    \/ IncludeFilesNested
    \/ CallerReceives

SpecInclude == InitInclude /\ [][NextIncludeFiles]_vars

\* The file a directive names, as the reader of the check holds it.
FileOf(reader, part) ==
    IF join(BaseDir, part.key) \in DOMAIN reader
    THEN reader[join(BaseDir, part.key)]
    ELSE Failing("Error")

\* Every file the parts include, directly or through other files, can be read.
RECURSIVE AllReadable(_, _)
AllReadable(parts, reader) ==
    \A k \in DOMAIN parts :
        parts[k].kind = "include" =>
            /\ FileOf(reader, parts[k]).ok
            /\ AllReadable(FileOf(reader, parts[k]).parts, reader)

\* What the parts promise: every include directive gives the flattened content of
\* its file, and nothing when the file cannot be read.
RECURSIVE ExpectedInclude(_, _)
ExpectedInclude(parts, reader) ==
    IF parts = <<>> THEN <<>>
    ELSE LET p == Head(parts)
         IN  (IF p.kind = "include"
              THEN ExpectedInclude(FileOf(reader, p).parts, reader)
              ELSE p.text) \o ExpectedInclude(Tail(parts), reader)

Settled == result.state # "pending"

\* C7: with every file readable, includeFiles puts in the place of each directive
\* the content of its file with the files that one includes flattened into it, to
\* any depth, and leaves no include directive.
C7_NestedIncludesFlattened ==
    (Settled /\ AllReadable(doc, fileReader))
        => result = Fulfilled(ExpectedInclude(doc, fileReader))

\* C7's case: the document includes A, which includes B, which includes C.
C7_Witness ==
    /\ result.state = "fulfilled"
    /\ \E k \in DOMAIN doc : doc[k].kind = "include" /\ doc[k].key = <<"A">>
    /\ AllReadable(doc, fileReader)
    /\ \E a \in DOMAIN fileReader[<<"A">>].parts :
          /\ fileReader[<<"A">>].parts[a].key = <<"B">>
          /\ \E b \in DOMAIN fileReader[<<"B">>].parts :
                fileReader[<<"B">>].parts[b].key = <<"C">>

\* The reads of the parts that fail, counted through the files they include.
RECURSIVE FailedReads(_, _)
FailedReads(parts, reader) ==
    IF parts = <<>> THEN 0
    ELSE LET p == Head(parts)
         IN  (IF p.kind # "include" THEN 0
              ELSE IF FileOf(reader, p).ok THEN FailedReads(FileOf(reader, p).parts, reader)
              ELSE 1) + FailedReads(Tail(parts), reader)

\* C8: whatever the failure of a read, includeFiles completes normally, with the
\* failed directive replaced by nothing and every other directive resolved, and
\* the logger has been told of each failure.
C8_FailedIncludeAbsorbed ==
    Settled =>
        /\ result = Fulfilled(ExpectedInclude(doc, fileReader))
        /\ Len(log) = FailedReads(doc, fileReader)

\* The paths the outermost call passed to the reader, in order.
RECURSIVE OutermostReads(_)
OutermostReads(entries) ==
    IF entries = <<>> THEN <<>>
    ELSE (IF Head(entries).depth = 1 THEN <<Head(entries).path>> ELSE <<>>)
             \o OutermostReads(Tail(entries))

\* The paths of the directives of the parts, one per occurrence, in order.
RECURSIVE OccurrencePaths(_)
OccurrencePaths(parts) ==
    IF parts = <<>> THEN <<>>
    ELSE (IF Head(parts).kind = "include" THEN <<join(BaseDir, Head(parts).key)>> ELSE <<>>)
             \o OccurrencePaths(Tail(parts))

DirectiveTexts(parts) == {parts[k].text : k \in {j \in DOMAIN parts : parts[j].kind = "include"}}

IsPrefix(s, t) == Len(s) <= Len(t) /\ s = SubSeq(t, 1, Len(s))

\* The text includeFiles puts in the place of a directive: the flattened content of
\* its file, and nothing when the read, or the recursive call on the content, fails.
RECURSIVE Included(_, _)
Included(parts, reader) ==
    IF parts = <<>> THEN <<>>
    ELSE LET p    == Head(parts)
             file == FileOf(reader, p)
             lost == \E k \in DOMAIN file.parts :
                        /\ file.parts[k].kind = "include"
                        /\ ~FileOf(reader, file.parts[k]).ok
                        /\ FileOf(reader, file.parts[k]).error = "nullish"
         IN  (IF p.kind # "include" THEN p.text
              ELSE IF lost THEN <<>>
              ELSE Included(file.parts, reader)) \o Included(Tail(parts), reader)

\* C9 as stated: text-identical directives of one document are read once: the
\* outermost call invokes the reader once per distinct directive text.
C9_OneReadPerDirectiveText ==
    result.state = "fulfilled"
        => Len(OutermostReads(reads)) = Cardinality(DirectiveTexts(doc))

\* C9 as amended: includeFiles invokes the reader once per occurrence of a
\* directive, in the order of the text, text-identical occurrences included, and
\* puts the same content in the place of every occurrence.
C9_OneReadPerOccurrence ==
    /\ IsPrefix(OutermostReads(reads), OccurrencePaths(doc))
    /\ result.state = "fulfilled"
          => /\ OutermostReads(reads) = OccurrencePaths(doc)
             /\ result.value = Included(doc, fileReader)

\* C9's case: a document with two text-identical directives has been resolved.
C9_Witness ==
    /\ result.state = "fulfilled"
    /\ \E j, k \in DOMAIN doc :
          j < k /\ doc[j].kind = "include" /\ doc[j].text = doc[k].text

----------------------------------------------------------------------------
(* includeFilesIf under check.                                             *)

MaxIncludeIfParts == 3

\* A conditional include: key is the view model key, inner the file name.
IncludeIf(key, file, text) == Part("includeIf", key, file, text)

IncludeIfOf(key, file) ==
    IncludeIf(key, file,
              CommentOpen \o KwIncludeIf \o key \o <<",">> \o file \o <<")">> \o CommentClose)

\* The same directive written with white space, quotes and a semicolon.
QuotedIncludeIfOf(key, file) ==
    IncludeIf(key, file,
              CommentOpen \o <<" ">> \o KwIncludeIf \o <<" ">> \o key \o <<" ", ",", " ", "'">>
                  \o file \o <<"'", " ", ")", ";", " ">> \o CommentClose)

IncludeIfParts ==
    { Literal(<<"x">>),
      Literal(<<"\n">>),
      Literal(<<"\r", "\n">>),
      IncludeIfOf(<<"k">>, <<"A">>),
      QuotedIncludeIfOf(<<"k">>, <<"B">>),
      IncludeIfOf(<<"n">>, <<"A">>),
      IncludeIfOf(<<"k">>, <<"M">>) }

\* The key n is falsy or absent in every model.
IncludeIfModels ==
    { <<>>,
      (<<"k">> :> Bool(TRUE)) @@ (<<"t">> :> Str(<<"T">>)),
      (<<"k">> :> Bool(FALSE)) @@ (<<"n">> :> Num(0)) @@ (<<"t">> :> Str(<<"T">>)),
      (<<"k">> :> Num(1)) @@ (<<"n">> :> Str(<<>>)) }

IncludeIfReaders ==
    { \* A holds a placeholder and includes B
      (<<"A">> :> File(<<Literal(<<"a">>),
                         Placeholder(<<"t">>, CommentOpen \o <<"t">> \o CommentClose),
                         IncludeOf(<<"B">>)>>))
        @@ (<<"B">> :> File(<<Literal(<<"b">>)>>)),
      \* A holds a block and, on a line of its own, a conditional include of B
      (<<"A">> :> File(<<Block(<<"k">>, <<"H">>,
                               RenderIfOpen \o <<"k", ")">> \o CommentClose \o <<"H">> \o EndIf),
                         Literal(<<"\n">>),
                         IncludeIfOf(<<"k">>, <<"B">>)>>))
        @@ (<<"B">> :> Failing("Error")),
      \* the read of A rejects with undefined
      (<<"A">> :> Failing("nullish"))
        @@ (<<"B">> :> File(<<Literal(<<"b">>), Literal(<<"\n">>), IncludeIfOf(<<"n">>, <<"A">>)>>)),
      \* A includes B, which holds a block and a conditional include of C, and C
      (<<"A">> :> File(<<IncludeOf(<<"B">>), IncludeOf(<<"C">>)>>))
        @@ (<<"B">> :> File(<<Block(<<"k">>, <<"H">>,
                                    RenderIfOpen \o <<"k", ")">> \o CommentClose \o <<"H">> \o EndIf),
                              Literal(<<"\n">>),
                              IncludeIfOf(<<"k">>, <<"C">>)>>))
        @@ (<<"C">> :> File(<<Literal(<<"c">>),
                              Placeholder(<<"t">>, CommentOpen \o <<"t">> \o CommentClose)>>)) }

InitIncludeIf ==
    /\ doc \in BoundedSeq(IncludeIfParts, MaxIncludeIfParts)
    /\ html = Flatten(doc)
    /\ viewModel \in IncludeIfModels
    /\ ret = <<>>
    /\ fileReader \in IncludeIfReaders
    /\ stack = <<Frame("includeFilesIf", "start", html)>>
    /\ result = Pending
    /\ reads = <<>>
    /\ log = <<>>
    /\ stages = <<>>
    /\ parked = <<>>

NextIncludeFilesIf ==
    \/ IncludeFilesIfStart
    \/ IncludeFilesIfLine
    \/ IncludeFilesIfRead
    \/ IncludeFilesIfAfterIncludeFiles
    \/ IncludeFilesIfNested
    \/ IncludeFilesExec
    \/ IncludeFilesRead
    \/ IncludeFilesNested
    \/ CallerReceives

SpecIncludeIf == InitIncludeIf /\ [][NextIncludeFilesIf]_vars

\* Every conditional include of the parts has a key that is falsy or absent.
AllKeysFalsy(parts, vm) ==
    \A k \in DOMAIN parts : parts[k].kind = "includeIf" => ~Truthy(Get(vm, parts[k].key))

\* C10: a conditional include whose key is falsy or absent causes no read and is
\* not removed: a document whose conditional includes all have falsy keys is
\* returned unchanged.
C10_FalsyIncludeIfUntouched ==
    (Settled /\ AllKeysFalsy(doc, viewModel))
        => (reads = <<>> /\ result = Fulfilled(html))

\* The file a conditional include names, as the reader sees it.
FileOfIf(reader, part) ==
    IF join(BaseDir, part.inner) \in DOMAIN reader
    THEN reader[join(BaseDir, part.inner)]
    ELSE Failing("Error")

\* The conditional includes of the parts whose key is truthy.
TruthyIncludeIfs(parts, vm) ==
    {k \in DOMAIN parts : parts[k].kind = "includeIf" /\ Truthy(Get(vm, parts[k].key))}

\* The conditional includes of the parts whose key is falsy or absent.
FalsyIncludeIfs(parts, vm) ==
    {k \in DOMAIN parts : parts[k].kind = "includeIf" /\ ~Truthy(Get(vm, parts[k].key))}

\* C11: for a falsy key includeFilesIf removes the directive from its line, the
\* output no longer holds the directive comment, and the file is not read.
C11_FalsyIncludeIfRemoved ==
    result.state = "fulfilled"
        => \A k \in FalsyIncludeIfs(doc, viewModel) : IndexOf(result.value, doc[k].text, 1) = 0

\* C11 as amended: for a falsy key includeFilesIf leaves the directive comment in
\* the output, and it reads no file for it: the outermost call reads at most once
\* per directive with a truthy key, and only files such directives name.
C11_FalsyIncludeIfKept ==
    /\ Len(OutermostReads(reads)) <= Cardinality(TruthyIncludeIfs(doc, viewModel))
    /\ \A r \in DOMAIN OutermostReads(reads) :
          \E k \in TruthyIncludeIfs(doc, viewModel) :
              OutermostReads(reads)[r] = join(BaseDir, doc[k].inner)
    /\ result.state = "fulfilled"
          => \A k \in FalsyIncludeIfs(doc, viewModel) : IndexOf(result.value, doc[k].text, 1) # 0

\* C11's case: a document with a directive whose key the view model holds with a
\* falsy value, next to one with a truthy key, has been resolved.
C11_Witness ==
    /\ result.state = "fulfilled"
    /\ \E k \in FalsyIncludeIfs(doc, viewModel) : doc[k].key \in DOMAIN viewModel
    /\ TruthyIncludeIfs(doc, viewModel) # {}
    /\ reads # <<>>

\* A part is a line separator.
IsBreak(part) == part.kind = "text" /\ part.text \in {<<"\n">>, <<"\r", "\n">>}

\* The directive at k is the first conditional include of its line.
FirstOnLine(parts, k) ==
    \A j \in 1..(k - 1) :
        parts[j].kind = "includeIf" => \E b \in (j + 1)..(k - 1) : IsBreak(parts[b])

\* The parts of a file as includeFiles brings them in: its blocks and placeholders
\* are text that nothing resolves any more.
Raw(parts) ==
    [k \in DOMAIN parts |->
        IF parts[k].kind \in {"block", "placeholder"} THEN Literal(parts[k].text) ELSE parts[k]]

\* The parts with every include replaced by the parts of its file, to any depth,
\* and by nothing when the file cannot be read.
RECURSIVE ExpandIncludes(_, _)
ExpandIncludes(parts, reader) ==
    IF parts = <<>> THEN <<>>
    ELSE (IF Head(parts).kind # "include" THEN <<Head(parts)>>
          ELSE IF FileOf(reader, Head(parts)).ok
               THEN ExpandIncludes(Raw(FileOf(reader, Head(parts)).parts), reader)
               ELSE <<>>)
             \o ExpandIncludes(Tail(parts), reader)

\* The parts of a file after renderIf and replacePlaceholders: a block is its
\* content or nothing, a placeholder with a truthy value is the value.
OwnResolved(parts, vm) ==
    [k \in DOMAIN parts |->
        CASE parts[k].kind = "block" ->
                 Literal(IF Truthy(Get(vm, parts[k].key)) THEN parts[k].inner ELSE <<>>)
          [] parts[k].kind = "placeholder" /\ Truthy(Get(vm, parts[k].key)) ->
                 Literal(String(Get(vm, parts[k].key)))
          [] OTHER -> parts[k]]

\* The parts of a file after renderIf, replacePlaceholders and includeFiles, in
\* this order: after the file's own blocks and placeholders, an include is the
\* parts of its file.
ResolvedParts(parts, vm, reader) == ExpandIncludes(OwnResolved(parts, vm), reader)

\* The call on the parts rejects: a directive that is read names a file whose read
\* rejects with a nullish value.
RejectsIncludeIf(parts, vm, reader) ==
    \E k \in TruthyIncludeIfs(parts, vm) :
        /\ FirstOnLine(parts, k)
        /\ ~FileOfIf(reader, parts[k]).ok
        /\ FileOfIf(reader, parts[k]).error = "nullish"

\* What the parts promise: the first conditional include of a line, when its key
\* is truthy, gives the content of its file with the blocks, placeholders,
\* includes and conditional includes of the file resolved, and nothing when the
\* read or the resolution fails; everything else is kept.
RECURSIVE ExpectedIncludeIf(_, _, _)
ExpectedIncludeIf(parts, vm, reader) ==
    LET Of(k) ==
            LET file  == FileOfIf(reader, parts[k])
                inner == ResolvedParts(file.parts, vm, reader)
            IN  IF ~(k \in TruthyIncludeIfs(parts, vm) /\ FirstOnLine(parts, k))
                THEN parts[k].text
                ELSE IF ~file.ok \/ RejectsIncludeIf(inner, vm, reader) THEN <<>>
                ELSE ExpectedIncludeIf(inner, vm, reader)
    IN  Flatten([k \in DOMAIN parts |-> Literal(Of(k))])

\* The text with every "\r\n" written as "\n".
UnixLines(s) ==
    LET tagged  == [i \in 1..Len(s) |->
                       [c |-> s[i], cr |-> s[i] = "\r" /\ i < Len(s) /\ s[i + 1] = "\n"]]
        Keep(t) == ~t.cr
        kept    == SelectSeq(tagged, Keep)
    IN  [j \in DOMAIN kept |-> kept[j].c]

\* C12: for a truthy key and a read that succeeds, includeFilesIf puts in the place
\* of the directive the content of the file after renderIf, replacePlaceholders,
\* includeFiles and includeFilesIf, so the blocks, placeholders, includes and
\* conditional includes of the file are resolved (line ends compared as "\n").
C12_IncludedContentResolved ==
    result.state = "fulfilled"
        => UnixLines(result.value) = UnixLines(ExpectedIncludeIf(doc, viewModel, fileReader))

\* C12's case: the document includes, for a truthy key, a file whose include brings
\* in a conditional include with a truthy key of a file that holds a placeholder
\* with a truthy value.
C12_Witness ==
    /\ result.state = "fulfilled"
    /\ \E k \in TruthyIncludeIfs(doc, viewModel) :
          /\ FirstOnLine(doc, k)
          /\ FileOfIf(fileReader, doc[k]).ok
          /\ \E p \in DOMAIN FileOfIf(fileReader, doc[k]).parts :
                FileOfIf(fileReader, doc[k]).parts[p].kind = "include"
          /\ LET inner == ResolvedParts(FileOfIf(fileReader, doc[k]).parts, viewModel, fileReader)
             IN  \E j \in TruthyIncludeIfs(inner, viewModel) :
                    /\ FirstOnLine(inner, j)
                    /\ FileOfIf(fileReader, inner[j]).ok
                    /\ \E q \in DOMAIN FileOfIf(fileReader, inner[j]).parts :
                          /\ FileOfIf(fileReader, inner[j]).parts[q].kind = "placeholder"
                          /\ Truthy(Get(viewModel, FileOfIf(fileReader, inner[j]).parts[q].key))

\* The directives of the parts that are read and whose read fails.
FailedIncludeIfs(parts, vm, reader) ==
    {k \in TruthyIncludeIfs(parts, vm) : FirstOnLine(parts, k) /\ ~FileOfIf(reader, parts[k]).ok}

\* C13: when the read for a truthy key fails, includeFilesIf removes the directive
\* from its line, tells the logger, handles every other line as if nothing had
\* failed, and completes normally without rejecting.
C13_FailedIncludeIfAbsorbed ==
    Settled =>
        /\ result.state = "fulfilled"
        /\ UnixLines(result.value) = UnixLines(ExpectedIncludeIf(doc, viewModel, fileReader))
        /\ Len(log) >= Cardinality(FailedIncludeIfs(doc, viewModel, fileReader))

\* What a call does besides returning: the paths it reads and the failures it
\* logs, in order, and whether it completes normally.
Effects(r, l, ok) == [reads |-> r, log |-> l, ok |-> ok]

\* One effect after the other; nothing follows a call that has rejected.
Then(a, b) == IF a.ok THEN Effects(a.reads \o b.reads, a.log \o b.log, b.ok) ELSE a

\* The effects of includeFiles on the parts, read off the text: every include in
\* turn is read, and the includes of its file before the next one.
RECURSIVE IncludeEffects(_, _)
IncludeEffects(parts, reader) ==
    IF parts = <<>> THEN Effects(<<>>, <<>>, TRUE)
    ELSE IF Head(parts).kind # "include" THEN IncludeEffects(Tail(parts), reader)
    ELSE LET p     == Head(parts)
             file  == FileOf(reader, p)
             read  == Effects(<<join(BaseDir, p.key)>>, <<>>, TRUE)
             entry == Effects(<<>>, <<LogEntry("include", p.key)>>, TRUE)
             sub   == IncludeEffects(file.parts, reader)
             here  == IF file.ok
                      THEN Then(read, IF sub.ok THEN sub
                                      ELSE Effects(sub.reads, sub.log \o entry.log, TRUE))
                      ELSE IF file.error = "nullish" THEN Effects(read.reads, <<>>, FALSE)
                      ELSE Then(read, entry)
         IN  Then(here, IncludeEffects(Tail(parts), reader))

\* The effects of includeFilesIf on the parts from the part k on: the first
\* conditional include of each line, when its key is truthy, is read, and what its
\* file includes before the next line.
RECURSIVE IncludeIfEffects(_, _, _, _)
IncludeIfEffects(parts, k, vm, reader) ==
    IF k > Len(parts) THEN Effects(<<>>, <<>>, TRUE)
    ELSE IF ~(k \in TruthyIncludeIfs(parts, vm) /\ FirstOnLine(parts, k))
    THEN IncludeIfEffects(parts, k + 1, vm, reader)
    ELSE LET file   == FileOfIf(reader, parts[k])
             read   == Effects(<<join(BaseDir, parts[k].inner)>>, <<>>, TRUE)
             entry  == Effects(<<>>, <<LogEntry("includeIf", parts[k].inner)>>, TRUE)
             own    == OwnResolved(file.parts, vm)
             nested == Then(IncludeEffects(own, reader),
                            IncludeIfEffects(ExpandIncludes(own, reader), 1, vm, reader))
             here   == IF file.ok
                       THEN Then(read, IF nested.ok THEN nested
                                       ELSE Effects(nested.reads, nested.log \o entry.log, TRUE))
                       ELSE IF file.error = "nullish" THEN Effects(read.reads, <<>>, FALSE)
                       ELSE Then(read, entry)
         IN  Then(here, IncludeIfEffects(parts, k + 1, vm, reader))

ReadPaths == [j \in DOMAIN reads |-> reads[j].path]

\* C14: within one call at most one read is outstanding at any time, and the reads
\* start in the order of the directives in the text, those of a nested file before
\* the next directive of the enclosing text; so for a deterministic reader the
\* reader invocations and the logged failures are a function of the input.
C14_ReadsInTextOrder ==
    LET e == IncludeIfEffects(doc, 1, viewModel, fileReader)
    IN  /\ Cardinality({k \in DOMAIN stack : stack[k].pc = "awaitRead"}) <= 1
        /\ IsPrefix(ReadPaths, e.reads)
        /\ IsPrefix(log, e.log)
        /\ Settled => /\ ReadPaths = e.reads
                      /\ log = e.log
                      /\ (result.state = "fulfilled") = e.ok

\* C14's case: a call has completed in which the reads of a nested file came
\* between the reads of two directives of the document.
C14_Witness ==
    /\ Settled
    /\ \E i, j, k \in DOMAIN reads :
          i < j /\ j < k /\ reads[i].depth = 1 /\ reads[j].depth > 1 /\ reads[k].depth = 1

\* The directives of the parts that includeFilesIf reads: the first conditional
\* include of each line, when its key is truthy.
ReadIncludeIfs(parts, vm) == {k \in TruthyIncludeIfs(parts, vm) : FirstOnLine(parts, k)}

\* Their paths, in the order of the text.
RECURSIVE PathsOf(_, _)
PathsOf(parts, ks) ==
    IF ks = {} THEN <<>>
    ELSE <<join(BaseDir, parts[Least(ks)].inner)>> \o PathsOf(parts, ks \ {Least(ks)})

\* How often the text p occurs in s.
Occurrences(s, p) == Cardinality({i \in 1..Len(s) : StartsWithAt(s, i, p)})

\* C18: includeFilesIf handles at most one conditional include per line: of several
\* on a line only the first is read and resolved (or removed on failure), the
\* later ones stay in the output as they were, and the directives of the other
\* lines are each handled.
C18_OneIncludeIfPerLine ==
    result.state = "fulfilled" =>
        /\ OutermostReads(reads) = PathsOf(doc, ReadIncludeIfs(doc, viewModel))
        /\ \A k \in DOMAIN doc :
              (doc[k].kind = "includeIf" /\ k \notin ReadIncludeIfs(doc, viewModel)) =>
                  Occurrences(result.value, doc[k].text)
                      >= Cardinality({j \in DOMAIN doc :
                                         /\ doc[j].text = doc[k].text
                                         /\ j \notin ReadIncludeIfs(doc, viewModel)})

\* C18's case: a line with two conditional includes, both with a truthy key and a
\* file that can be read, has been handled.
C18_Witness ==
    /\ result.state = "fulfilled"
    /\ Len(OutermostReads(reads)) = 1
    /\ \A k \in TruthyIncludeIfs(doc, viewModel) : FileOfIf(fileReader, doc[k]).ok
    /\ \E j, k \in TruthyIncludeIfs(doc, viewModel) :
          j < k /\ FirstOnLine(doc, j) /\ ~FirstOnLine(doc, k)

\* C20: includeFilesIf changes only the directives it resolves or removes: every
\* character outside them, every line terminator included, is in the output as it
\* was in the input, also when the input mixes "\n" and "\r\n"; and an input with
\* no includeIf directive is returned unchanged without any read.
C20_OnlyDirectivesChange ==
    /\ result.state = "fulfilled"
          => result.value = ExpectedIncludeIf(doc, viewModel, fileReader)
    /\ (Settled /\ \A k \in DOMAIN doc : doc[k].kind # "includeIf")
          => (reads = <<>> /\ result = Fulfilled(html))

----------------------------------------------------------------------------
(* renderTemplate under check.                                             *)

MaxRenderParts == 3

RenderParts ==
    { Literal(<<"x">>),
      Literal(<<"\n">>),
      Placeholder(<<"t">>, CommentOpen \o <<" ", "t", " ">> \o CommentClose),
      Block(<<"k">>, <<"H">>, RenderIfOpen \o <<"k", ")">> \o CommentClose \o <<"H">> \o EndIf),
      IncludeOf(<<"A">>),
      IncludeIfOf(<<"k">>, <<"A">>) }

Init ==
    /\ doc \in BoundedSeq(RenderParts, MaxRenderParts)
    /\ html = Flatten(doc)
    /\ viewModel \in IncludeIfModels
    /\ ret = <<>>
    /\ fileReader \in IncludeIfReaders
    /\ stack = <<Frame("renderTemplate", "stage", html)>>
    /\ result = Pending
    /\ reads = <<>>
    /\ log = <<>>
    /\ stages = <<>>
    /\ parked = <<>>

Next ==
    \/ RenderTemplateStep
    \/ RenderTemplateResume
    \/ IncludeFilesIfStart
    \/ IncludeFilesIfLine
    \/ IncludeFilesIfRead
    \/ IncludeFilesIfAfterIncludeFiles
    \/ IncludeFilesIfNested
    \/ IncludeFilesExec
    \/ IncludeFilesRead
    \/ IncludeFilesNested
    \/ CallerReceives

Spec == Init /\ [][Next]_vars

\* C1: one renderTemplate call applies renderIf, replacePlaceholders,
\* includeFilesIf, includeFiles, renderIf, replacePlaceholders and minifyHtml, once
\* each and in this order, and returns what minifyHtml returned.
C1_PipelineOrder ==
    result.state = "fulfilled"
        => stages = <<"renderIf", "replacePlaceholders", "includeFilesIf", "includeFiles",
                      "renderIf", "replacePlaceholders", "minifyHtml">>

----------------------------------------------------------------------------
(* setFileReader during a renderTemplate call.                             *)

MaxSetReaderParts == 3

SetReaderParts ==
    { Literal(<<"\n">>),
      IncludeOf(<<"A">>),
      IncludeOf(<<"B">>),
      IncludeIfOf(<<"k">>, <<"A">>) }

SetReaderModels == { <<>>, (<<"k">> :> Bool(TRUE)) }

\* The readers set: their files hold "2" and "3" where those of the disk hold "1".
CustomReaders ==
    { (<<"A">> :> File(<<Literal(<<"2">>)>>))
        @@ (<<"B">> :> File(<<Literal(<<"2">>), IncludeOf(<<"A">>)>>)),
      (<<"A">> :> Failing("Error"))
        @@ (<<"B">> :> File(<<Literal(<<"3">>)>>)) }

InitSetReader ==
    /\ doc \in BoundedSeq(SetReaderParts, MaxSetReaderParts)
    /\ html = Flatten(doc)
    /\ viewModel \in SetReaderModels
    /\ ret = <<>>
    /\ fileReader = DefaultReader
    /\ stack = <<Frame("renderTemplate", "stage", html)>>
    /\ result = Pending
    /\ reads = <<>>
    /\ log = <<>>
    /\ stages = <<>>
    /\ parked = <<>>

NextSetReader ==
    \/ \E reader \in CustomReaders \cup {DefaultReader} : SetFileReader(reader)
    \/ RenderTemplateStep
    \/ RenderTemplateResume
    \/ IncludeFilesIfStart
    \/ IncludeFilesIfLine
    \/ IncludeFilesIfRead
    \/ IncludeFilesIfAfterIncludeFiles
    \/ IncludeFilesIfNested
    \/ IncludeFilesExec
    \/ IncludeFilesRead
    \/ IncludeFilesNested
    \/ CallerReceives

SpecSetReader == InitSetReader /\ [][NextSetReader]_vars

\* C15: setFileReader replaces the one reader of the module and nothing else, and
\* every read that starts afterwards gets what the reader set last gives for its
\* path, also a read of a call that began before the replacement.
C15_ReadsUseCurrentReader ==
    [][ /\ fileReader' # fileReader => UNCHANGED <<stack, result, reads, log>>
        /\ Len(reads') > Len(reads) =>
              LET path    == reads'[Len(reads')].path
                  outcome == stack'[Len(stack')].pending
              IN  IF path \in DOMAIN fileReader /\ fileReader[path].ok
                  THEN outcome.ok /\ outcome.content = fileReader[path].content
                  ELSE ~outcome.ok ]_vars

\* C15's case: one renderTemplate call has returned a text with content of the
\* reader it began with and content of a reader set while it was suspended.
C15_Witness ==
    /\ result.state = "fulfilled"
    /\ \E i, j \in DOMAIN result.value : result.value[i] = "1" /\ result.value[j] = "2"

\* What renderTemplate promises for the parts, read off the text: the blocks and
\* placeholders of the document are resolved, then its includes, then its
\* conditional includes, and at last the blocks and placeholders that the files
\* brought in.
ExpectedRender(parts, vm, reader) ==
    LET included == ExpandIncludes(OwnResolved(parts, vm), reader)
    IN  replacePlaceholders(renderIf(ExpectedIncludeIf(included, vm, reader), vm), vm)

\* renderTemplate on the parts rejects: includeFiles or includeFilesIf does.
RejectsRender(parts, vm, reader) ==
    \/ ~IncludeEffects(OwnResolved(parts, vm), reader).ok
    \/ RejectsIncludeIf(ExpandIncludes(OwnResolved(parts, vm), reader), vm, reader)

\* What a renderTemplate call on the parts settles to when it runs alone.
Alone(parts, vm, reader) ==
    IF RejectsRender(parts, vm, reader) THEN Rejected("TypeError")
    ELSE Fulfilled(ExpectedRender(parts, vm, reader))

----------------------------------------------------------------------------
(* Concurrent renderTemplate calls.                                        *)

MaxConcurrentParts == 2

\* How many calls are in progress besides the running one.
MaxParked == 1

ConcurrentParts ==
    { Placeholder(<<"t">>, CommentOpen \o <<"t">> \o CommentClose),
      IncludeOf(<<"A">>),
      IncludeIfOf(<<"k">>, <<"B">>) }

ConcurrentModels ==
    { <<>>, (<<"k">> :> Bool(TRUE)) @@ (<<"t">> :> Str(<<"T">>)) }

ConcurrentReaders ==
    { (<<"A">> :> File(<<Literal(<<"a">>),
                         Placeholder(<<"t">>, CommentOpen \o <<"t">> \o CommentClose)>>))
        @@ (<<"B">> :> File(<<Literal(<<"b">>), IncludeOf(<<"A">>)>>)),
      (<<"A">> :> Failing("Error"))
        @@ (<<"B">> :> File(<<Literal(<<"b">>), IncludeOf(<<"A">>)>>)) }

\* The calls made: each with a text and a view model of its own, none begun.
NewCalls ==
    { Call(parts, Flatten(parts), vm, <<Frame("renderTemplate", "stage", Flatten(parts))>>,
           Pending, <<>>) :
        parts \in BoundedSeq(ConcurrentParts, MaxConcurrentParts), vm \in ConcurrentModels }

InitConcurrent ==
    /\ \E first \in NewCalls :
          /\ doc = first.doc
          /\ html = first.html
          /\ viewModel = first.viewModel
          /\ stack = first.stack
    /\ ret = <<>>
    /\ fileReader \in ConcurrentReaders
    /\ result = Pending
    /\ reads = <<>>
    /\ log = <<>>
    /\ stages = <<>>
    /\ parked \in BoundedSeq(NewCalls, MaxParked) \ {<<>>}

NextConcurrent ==
    \/ \E k \in 1..MaxParked : Switch(k)
    \/ RenderTemplateStep
    \/ RenderTemplateResume
    \/ IncludeFilesIfStart
    \/ IncludeFilesIfLine
    \/ IncludeFilesIfRead
    \/ IncludeFilesIfAfterIncludeFiles
    \/ IncludeFilesIfNested
    \/ IncludeFilesExec
    \/ IncludeFilesRead
    \/ IncludeFilesNested
    \/ CallerReceives

SpecConcurrent == InitConcurrent /\ [][NextConcurrent]_vars

\* All calls, the running one first.
AllCalls == <<Running>> \o parked

\* The arguments the calls hold.
Arguments == {[doc |-> AllCalls[c].doc, html |-> AllCalls[c].html, viewModel |-> AllCalls[c].viewModel] :
                 c \in DOMAIN AllCalls}

\* C16: with the reader left as it is, concurrent renderTemplate calls, interleaved
\* in any way at their awaits, each return what they return when run alone, and no
\* step changes the text or the view model of any call.
C16_ConcurrentCallsIndependent ==
    /\ [](\A c \in DOMAIN AllCalls :
             AllCalls[c].result # Pending =>
                 AllCalls[c].result = Alone(AllCalls[c].doc, AllCalls[c].viewModel, fileReader))
    /\ [][Arguments' = Arguments]_vars

\* The paths a renderTemplate call on the parts reads when it runs alone.
AloneReads(parts, vm, reader) ==
    IncludeEffects(OwnResolved(parts, vm), reader).reads
        \o IncludeIfEffects(ExpandIncludes(OwnResolved(parts, vm), reader), 1, vm, reader).reads

\* C16's case: two calls have returned whose reads were interleaved: the reads
\* made are not those of the one call followed by those of the other.
C16_Witness ==
    /\ \A c \in DOMAIN AllCalls : AllCalls[c].result.state = "fulfilled"
    /\ LET r1 == AloneReads(doc, viewModel, fileReader)
           r2 == AloneReads(parked[1].doc, parked[1].viewModel, fileReader)
       IN  /\ Len(r1) >= 2 /\ Len(r2) >= 2
           /\ ReadPaths # r1 \o r2
           /\ ReadPaths # r2 \o r1

----------------------------------------------------------------------------
(* renderIf on blocks whose key is written with white space around it.     *)

MaxSpacedBlocks == 3

\* The key of each block is the name inside the parentheses without the white
\* space around it.
SpacedKeyParts ==
    { Literal(<<"x">>),
      Block(<<"a">>, <<"H">>, RenderIfOpen \o <<"a", ")">> \o CommentClose \o <<"H">> \o EndIf),
      Block(<<"a">>, <<"X">>,
            CommentOpen \o <<" ">> \o KwRenderIf \o <<" ", "a", " ", ")", ";", " ">> \o CommentClose
                \o <<"X">> \o CommentOpen \o <<" ">> \o KwEndIf \o <<";", " ">> \o CommentClose),
      Block(<<"b">>, <<"W">>, RenderIfOpen \o <<" ", "b", ")">> \o CommentClose \o <<"W">> \o EndIf) }

InitSpacedKeys ==
    /\ doc \in BoundedSeq(SpacedKeyParts, MaxSpacedBlocks)
    /\ html = Flatten(doc)
    /\ viewModel \in RenderIfModels
    /\ ret = <<>>
    /\ AsyncIdle

SpecSpacedKeys == InitSpacedKeys /\ [][CallRenderIf]_vars

\* The key of the block is written with white space after the parenthesis.
SpacedKey(part) ==
    /\ part.kind = "block"
    /\ \E i \in 1..(Len(part.text) - 1) : SubSeq(part.text, i, i + 1) = <<"(", " ">>

\* C17: renderIf looks the trimmed key up: a block whose key is written with white
\* space around it inside the parentheses is decided by the value of the key
\* itself, so it yields its content when that value is truthy.
C17_KeyTrimmed ==
    (ret # <<>> /\ \E k \in DOMAIN doc : SpacedKey(doc[k]))
        => ret[1] = ExpectedRenderIf(doc, viewModel)

----------------------------------------------------------------------------
(* includeFiles on files that include themselves or each other.            *)

MaxCyclicParts == 2

\* The deepest nesting of calls the check follows; it is more than the number of
\* files a reader holds, so a chain of calls that deep holds a file twice.
MaxDepth == 4

CyclicParts == { Literal(<<"x">>), IncludeOf(<<"A">>), IncludeOf(<<"B">>) }

CyclicReaders ==
    { \* A includes itself
      (<<"A">> :> File(<<Literal(<<"a">>), IncludeOf(<<"A">>)>>))
        @@ (<<"B">> :> File(<<Literal(<<"b">>)>>)),
      \* A and B include each other
      (<<"A">> :> File(<<Literal(<<"a">>), IncludeOf(<<"B">>)>>))
        @@ (<<"B">> :> File(<<IncludeOf(<<"A">>), Literal(<<"b">>)>>)),
      \* no file includes itself or a file that includes it
      (<<"A">> :> File(<<Literal(<<"a">>), IncludeOf(<<"B">>)>>))
        @@ (<<"B">> :> File(<<Literal(<<"b">>)>>)) }

InitCyclic ==
    /\ doc \in BoundedSeq(CyclicParts, MaxCyclicParts)
    /\ html = Flatten(doc)
    /\ viewModel = <<>>
    /\ ret = <<>>
    /\ fileReader \in CyclicReaders
    /\ stack = <<Frame("includeFiles", "exec", html)>>
    /\ result = Pending
    /\ reads = <<>>
    /\ log = <<>>
    /\ stages = <<>>
    /\ parked = <<>>

\* The steps of includeFiles, followed as far as MaxDepth nested calls.
NextCyclic ==
    \/ IncludeFilesExec
    \/ Len(stack) < MaxDepth /\ IncludeFilesRead
    \/ IncludeFilesNested
    \/ CallerReceives

SpecCyclic == InitCyclic /\ [][NextCyclic]_vars

\* C19: every includeFiles call eventually completes when each read eventually
\* completes, also when a file includes itself or two files include each other.
\* A call that completes never nests its calls deeper than the files the reader
\* holds, the document's own call counted in: in a deeper chain of calls some file
\* is being included inside itself, and, the reader and includeFiles being
\* deterministic, so it is again inside that inclusion, without end.
C19_IncludeFilesCompletes == Len(stack) <= Cardinality(DOMAIN fileReader) + 1

----------------------------------------------------------------------------
(* renderTemplate on includes inside conditional blocks.                   *)

MaxGuardedParts == 3

GuardedFiles == { <<"A">>, <<"B">>, <<"C">> }

\* A conditional block whose content is an include of the file.
GuardedInclude(key, file) ==
    Block(key, IncludeOf(file).text,
          RenderIfOpen \o key \o <<")">> \o CommentClose \o IncludeOf(file).text \o EndIf)

GuardedParts ==
    { Literal(<<"\n">>),
      IncludeOf(<<"A">>),
      IncludeIfOf(<<"k">>, <<"A">>),
      GuardedInclude(<<"n">>, <<"A">>),
      GuardedInclude(<<"n">>, <<"C">>) }

GuardedModels ==
    { <<>>,
      (<<"k">> :> Bool(TRUE)),
      (<<"k">> :> Bool(TRUE)) @@ (<<"n">> :> Num(1)),
      (<<"k">> :> Num(0)) @@ (<<"n">> :> Bool(FALSE)) }

GuardedReaders ==
    { \* A holds a block with an include of C
      (<<"A">> :> File(<<Literal(<<"a">>), GuardedInclude(<<"n">>, <<"C">>)>>))
        @@ (<<"C">> :> File(<<Literal(<<"c">>)>>)),
      \* A includes B, which holds a block with an include of C; C cannot be read
      (<<"A">> :> File(<<IncludeOf(<<"B">>)>>))
        @@ (<<"B">> :> File(<<GuardedInclude(<<"n">>, <<"C">>), Literal(<<"b">>)>>))
        @@ (<<"C">> :> Failing("Error")) }

InitGuarded ==
    /\ doc \in BoundedSeq(GuardedParts, MaxGuardedParts)
    /\ html = Flatten(doc)
    /\ viewModel \in GuardedModels
    /\ ret = <<>>
    /\ fileReader \in GuardedReaders
    /\ stack = <<Frame("renderTemplate", "stage", html)>>
    /\ result = Pending
    /\ reads = <<>>
    /\ log = <<>>
    /\ stages = <<>>
    /\ parked = <<>>

SpecGuarded == InitGuarded /\ [][Next]_vars

\* The parts the content of a block stands for.
InnerParts(part) ==
    IF \E f \in GuardedFiles : part.inner = IncludeOf(f).text
    THEN <<IncludeOf(CHOOSE f \in GuardedFiles : part.inner = IncludeOf(f).text)>>
    ELSE <<Literal(part.inner)>>

\* The parts a scan for directives sees.  Where renderIf has run (guarded), a block
\* is its content for a truthy key and nothing otherwise; where it has not, the
\* content of every block is in the text, between the markers of the block.
RECURSIVE Unfold(_, _, _)
Unfold(parts, vm, guarded) ==
    IF parts = <<>> THEN <<>>
    ELSE (IF Head(parts).kind # "block" THEN <<Head(parts)>>
          ELSE IF guarded /\ ~Truthy(Get(vm, Head(parts).key)) THEN <<>>
          ELSE InnerParts(Head(parts)))
             \o Unfold(Tail(parts), vm, guarded)

\* The paths includeFiles reads for the parts, in order: that of every include,
\* and those of the includes of its file before the next one.  guarded says
\* whether the blocks of a file brought in by an include keep their includes from
\* being read.
RECURSIVE IncludeReads(_, _, _, _)
IncludeReads(parts, vm, reader, guarded) ==
    IF parts = <<>> THEN <<>>
    ELSE (IF Head(parts).kind # "include" THEN <<>>
          ELSE <<join(BaseDir, Head(parts).key)>>
                 \o IncludeReads(Unfold(FileOf(reader, Head(parts)).parts, vm, guarded),
                                 vm, reader, guarded))
             \o IncludeReads(Tail(parts), vm, reader, guarded)

\* The parts after includeFiles: every include is the parts of its file.
RECURSIVE Expand(_, _, _, _)
Expand(parts, vm, reader, guarded) ==
    IF parts = <<>> THEN <<>>
    ELSE (IF Head(parts).kind # "include" THEN <<Head(parts)>>
          ELSE Expand(Unfold(FileOf(reader, Head(parts)).parts, vm, guarded),
                      vm, reader, guarded))
             \o Expand(Tail(parts), vm, reader, guarded)

\* The paths includeFilesIf reads for the parts from the part k on: that of the
\* first conditional include of each line, when its key is truthy, and, renderIf
\* having been applied to the content of its file, those of what the file includes.
RECURSIVE IncludeIfReads(_, _, _, _, _)
IncludeIfReads(parts, k, vm, reader, guarded) ==
    IF k > Len(parts) THEN <<>>
    ELSE IF ~(k \in TruthyIncludeIfs(parts, vm) /\ FirstOnLine(parts, k))
    THEN IncludeIfReads(parts, k + 1, vm, reader, guarded)
    ELSE LET own == Unfold(FileOfIf(reader, parts[k]).parts, vm, TRUE)
         IN  <<join(BaseDir, parts[k].inner)>>
                \o IncludeReads(own, vm, reader, guarded)
                \o IncludeIfReads(Expand(own, vm, reader, guarded), 1, vm, reader, guarded)
                \o IncludeIfReads(parts, k + 1, vm, reader, guarded)

\* The paths renderTemplate reads for the parts: renderIf has been applied to the
\* document before includeFiles and includeFilesIf run.
RenderReads(parts, vm, reader, guarded) ==
    LET top == Unfold(parts, vm, TRUE)
    IN  IncludeReads(top, vm, reader, guarded)
           \o IncludeIfReads(Expand(top, vm, reader, guarded), 1, vm, reader, guarded)

\* C21: during renderTemplate the reader is never invoked for an include inside a
\* renderIf block whose key is falsy, be the block in the template or in a file
\* brought in by an include: the reads made are reads of directives outside such
\* blocks.
C21_NoReadInsideFalsyBlock ==
    IsPrefix(ReadPaths, RenderReads(doc, viewModel, fileReader, TRUE))

\* C21 as amended: the reader is never invoked for an include inside a renderIf
\* block whose key is falsy when the block is in the template or in the file a
\* conditional include names; in a file brought in by an include the includes
\* inside every block are read, whatever the key of the block.
C21_NoReadInsideResolvedFalsyBlock ==
    /\ IsPrefix(ReadPaths, RenderReads(doc, viewModel, fileReader, FALSE))
    /\ result.state = "fulfilled"
          => ReadPaths = RenderReads(doc, viewModel, fileReader, FALSE)

\* C21's case: a call has returned for a template with an include inside a block
\* with a falsy key and a conditional include, with a truthy key, of a file that
\* holds such a block, and neither of the two files the blocks name has been read.
C21_Witness ==
    /\ result.state = "fulfilled"
    /\ \E i, j \in DOMAIN doc :
          /\ doc[i].kind = "block" /\ ~Truthy(Get(viewModel, doc[i].key))
          /\ doc[j].kind = "includeIf" /\ Truthy(Get(viewModel, doc[j].key))
          /\ FileOfIf(fileReader, doc[j]).ok
          /\ \E q \in DOMAIN FileOfIf(fileReader, doc[j]).parts :
                /\ FileOfIf(fileReader, doc[j]).parts[q].kind = "block"
                /\ ~Truthy(Get(viewModel, FileOfIf(fileReader, doc[j]).parts[q].key))
    /\ ReadPaths = <<<<"A">>>>

====
